---- MODULE Spec2Model ----
(***************************************************************************)
(* A model of dataloader.execute (src/execute.py): one SQL statement is    *)
(* sent to the targets selected from an instance of the configuration,     *)
(* each target is run by execute_on_base (optionally through an SSH        *)
(* tunnel), in one thread per target or one after the other, and the       *)
(* per-target DataFrames are merged in the order of the resolved targets.  *)
(***************************************************************************)
EXTENDS Integers, Sequences, FiniteSets, Bags, TLC

VARIABLES
    instance,       \* execute(instance=...)
    bases,          \* execute(bases=...): the selection
    sql,            \* execute(sql): the statement, by what its result looks like
    no_threads,     \* execute(no_threads=...)
    insert_name,    \* execute(insert_name=...), as the merge read it (line 278)
    name_position,  \* execute(name_position=...), as the merge read it (line 279)
    bases_dict,     \* the ordered dict get_dict_of_bases returned
    pc,             \* position of the thread that called execute
    i,              \* position of the loop of lines 248-268 in bases_dict
    threads,        \* the list threads: positions of the started workers
    j,              \* position of the loop of lines 271-272 in threads
    res,            \* the dict res shared with the workers: title -> DataFrame | None
    w,              \* per position of bases_dict: the frame of _execute/execute_on_base
    level,          \* logger.level of the module's logger
    records,        \* what the logger emitted: <<levelname, message, argument>>
    writes,         \* bag of the stores the executors made to shared objects
    stored,         \* history: the positions in the order their executors stored to res
    ds,             \* the list ds of the merge
    ret,            \* what execute returned
    dic,            \* a fragment given to Base().from_dict (line 70; config.py)
    twin,           \* the same fragment with other passwords
    built,          \* what from_dict made of dic and of twin
    diag            \* what is shown of the two: the reprs and the log records

vars == <<instance, bases, sql, no_threads, insert_name, name_position,
          bases_dict, pc, i, threads, j, res, w, level, records, writes, stored, ds, ret,
          dic, twin, built, diag>>

----------------------------------------------------------------------------
(* Bounds *)

\* longest list / mapping given as the selection
MaxSel == 2
\* largest name_position a caller gives
MaxPos == 2

----------------------------------------------------------------------------
(* The configuration: Config.connections, instance -> name -> Base *)

\* a Base, reduced to whether it has an ssh section and which database it is
Base(ssh, base) == [ssh |-> ssh, base |-> base]

connections ==
    [inst \in {"replica"} |->
        [n \in {"a", "b", "c"} |->
            CASE n = "a" -> Base(TRUE, "a")
              [] n = "b" -> Base(FALSE, "b")
              [] n = "c" -> Base(TRUE, "c")]]

\* Base.server of each database: a and the literal Base are reached on the
\* ssh host itself (the default of the field), b and c on hosts of their own
ServerOf(base) ==
    CASE base = "b" -> "db.b"
      [] base = "c" -> "db.c"
      [] OTHER -> "127.0.0.1"

\* Base.port of each database
PortOf(base) == [kind |-> "port", of |-> base]

\* dict.get(key): <<found, value>>
DictGet(d, k) == IF k \in DOMAIN d THEN <<TRUE, d[k]>> ELSE <<FALSE, d>>

\* the static table dataloader.dicts.bases: name -> human-friendly title
base_names == [n \in {"a"} |-> "A"]

\* base_names.get(base, base)
BaseNamesGet(base) == IF base \in DOMAIN base_names THEN base_names[base] ELSE base

\* a Base given literally in a mapping selection, not taken from the registry
LiteralBase == Base(FALSE, "lit")

\* names a caller asks for: a, b, c are registered in "replica", z is not
ReqNames == {"a", "b", "c", "z"}
Instances == {"replica", "missing"}
\* titles a caller gives in a name -> title mapping; "A" is also the title
\* base_names gives to a
Titles == {"A"}

\* the value of one item of a mapping selection: a title (str) or a Base
StrValue(t) == [isstr |-> TRUE, title |-> t, base |-> LiteralBase]
BaseValue(b) == [isstr |-> FALSE, title |-> "", base |-> b]
ItemValues == {StrValue(t) : t \in Titles} \cup {BaseValue(LiteralBase)}

SeqsUpTo(S, n) == UNION {[1..m -> S] : m \in 0..n}

Distinct(s) == \A p, q \in 1..Len(s) : p /= q => s[p] /= s[q]

\* the selection shapes: a str, an Iterable of str, a dict, and anything else (None)
StrSel(n) == [kind |-> "str", names |-> <<n>>, values |-> <<>>]
ListSel(ns) == [kind |-> "list", names |-> ns, values |-> <<>>]
DictSel(ns, vs) == [kind |-> "dict", names |-> ns, values |-> vs]
NoneSel == [kind |-> "none", names |-> <<>>, values |-> <<>>]

Selections ==
    {StrSel(n) : n \in ReqNames}
    \cup {ListSel(ns) : ns \in SeqsUpTo(ReqNames, MaxSel)}
    \cup {DictSel(ns, vs) : <<ns, vs>> \in
            {p \in SeqsUpTo(ReqNames, MaxSel) \X SeqsUpTo(ItemValues, MaxSel) :
                Len(p[1]) = Len(p[2]) /\ Distinct(p[1])}}
    \cup {NoneSel}

----------------------------------------------------------------------------
(* The descriptors of src/config.py: SSH, Base and their from_dict *)

\* SSH.port and Base.port when the fragment gives none
DefaultSSHPort == 22
DefaultPort == 3306

\* None, for a field of type str | None
NoneValue == "<None>"

\* the passwords a fragment gives
Passwords == {"pw1", "pw2"}

\* SSH(): the defaults of the dataclass
SSHDefaults ==
    [none |-> FALSE, host |-> "127.0.0.1", port |-> DefaultSSHPort,
     login |-> "root", key |-> NoneValue, password |-> NoneValue]

\* Base.ssh = None
NoSSH ==
    [none |-> TRUE, host |-> "", port |-> 0, login |-> "", key |-> "",
     password |-> ""]

\* Base(): the defaults of the dataclass
BaseDefaults ==
    [ssh |-> NoSSH, engine |-> "mysql+pymysql", server |-> "127.0.0.1",
     port |-> DefaultPort, user |-> "root", password |-> "", base |-> "mysql"]

\* the keys of the two sections of a fragment
SSHKeys == {"host", "port", "login", "key", "password"}
BaseKeys == {"engine", "server", "port", "user", "password", "base"}

\* the value a fragment gives for a key other than password
Given(section, k) ==
    IF k = "port"
    THEN IF section = "ssh" THEN DefaultSSHPort + 1 ELSE DefaultPort + 1
    ELSE IF section = "ssh" THEN "ssh-" \o k ELSE "db-" \o k

\* the dicts with some of the keys of a section
Section(section, keys) ==
    {[k \in K |-> IF k = "password" THEN pw ELSE Given(section, k)] :
        K \in SUBSET keys, pw \in Passwords}

\* the value under "ssh": no such key, a value that is not a dict, or a dict
SSHValues ==
    {[kind |-> "absent", d |-> <<>>], [kind |-> "str", d |-> <<>>]}
    \cup {[kind |-> "dict", d |-> d] : d \in Section("ssh", SSHKeys)}

\* the fragments Base.from_dict is given
Fragments ==
    {[ssh |-> s, d |-> d] : s \in SSHValues, d \in Section("db", BaseKeys)}

\* d[k] of a key that may be missing: the KeyError, or nothing
KeyError(k) == [exc |-> "KeyError", key |-> k]
NoError == [exc |-> "", key |-> ""]

\* d.get(k) if it is not None, else the value the field has
GetOr(d, k, default) == IF k \in DOMAIN d THEN d[k] ELSE default

\* an SSH.from_dict that reads the port as it reads the login
SSHFromDictPortRequired(d) ==
    IF "host" \notin DOMAIN d THEN [err |-> KeyError("host"), value |-> SSHDefaults]
    ELSE IF "port" \notin DOMAIN d THEN [err |-> KeyError("port"), value |-> SSHDefaults]
    ELSE IF "login" \notin DOMAIN d THEN [err |-> KeyError("login"), value |-> SSHDefaults]
    ELSE [err |-> NoError,
          value |-> [none |-> FALSE, host |-> d["host"], port |-> d["port"],
                     login |-> d["login"],
                     key |-> GetOr(d, "key", SSHDefaults.key),
                     password |-> GetOr(d, "password", SSHDefaults.password)]]

\* SSH().from_dict(d) with relative_path None: the KeyError of the first
\* required key that is missing, or the SSH
SSHFromDict(d) ==
    IF "host" \notin DOMAIN d THEN [err |-> KeyError("host"), value |-> SSHDefaults]
    ELSE IF "login" \notin DOMAIN d THEN [err |-> KeyError("login"), value |-> SSHDefaults]
    ELSE [err |-> NoError,
          value |-> [none |-> FALSE, host |-> d["host"],
                     port |-> GetOr(d, "port", SSHDefaults.port),
                     login |-> d["login"],
                     key |-> GetOr(d, "key", SSHDefaults.key),
                     password |-> GetOr(d, "password", SSHDefaults.password)]]

\* the first of the required keys of Base.from_dict that d lacks, in the
\* order the code reads them
RequiredBaseKeys == <<"server", "user", "password", "base">>
FirstMissing(d) ==
    LET missing == {n \in 1..Len(RequiredBaseKeys) : RequiredBaseKeys[n] \notin DOMAIN d}
    IN IF missing = {} THEN ""
       ELSE RequiredBaseKeys[CHOOSE n \in missing : \A m \in missing : n <= m]

\* Base().from_dict(fragment)
BaseFromDict(fr) ==
    LET s == IF fr.ssh.kind = "dict" THEN SSHFromDict(fr.ssh.d)
             ELSE [err |-> NoError, value |-> BaseDefaults.ssh]
        d == fr.d
    IN IF s.err /= NoError THEN [err |-> s.err, value |-> BaseDefaults]
       ELSE IF FirstMissing(d) /= ""
            THEN [err |-> KeyError(FirstMissing(d)), value |-> BaseDefaults]
       ELSE [err |-> NoError,
             value |-> [ssh |-> s.value,
                        engine |-> GetOr(d, "engine", BaseDefaults.engine),
                        server |-> d["server"],
                        port |-> GetOr(d, "port", BaseDefaults.port),
                        user |-> d["user"],
                        password |-> d["password"],
                        base |-> d["base"]]]

----------------------------------------------------------------------------
(* Logging *)

NOTSET == 0
DEBUG == 10
INFO == 20
WARNING == 30
ERROR == 40
CRITICAL == 50

log_level == <<NOTSET, DEBUG, INFO, WARNING, ERROR, CRITICAL>>

\* the debug argument, left at its default
debug == 2

\* _loglevel(level) for an int level: the level the logger is set to.
\* log_level is indexed from 0 in the source, from 1 here.
LogLevel(lvl) ==
    IF 0 < lvl /\ lvl < Len(log_level) THEN log_level[lvl + 1] ELSE log_level[1]

\* Logger.getEffectiveLevel with the root logger at its default, WARNING
Effective(lv) == IF lv = NOTSET THEN WARNING ELSE lv

\* logger.<levelname>(message, argument) under logger level lv
Emit(recs, lv, lno, name, msg, arg) ==
    IF lno >= Effective(lv) THEN recs \cup {<<name, msg, arg>>} ELSE recs

----------------------------------------------------------------------------
(* get_dict_of_bases *)

\* dict.update({title: base}) on an ordered dict kept as a sequence of items:
\* an existing key keeps its position and takes the new value
DictUpdate(d, title, base) ==
    IF \E p \in 1..Len(d) : d[p].title = title
    THEN [p \in 1..Len(d) |->
            IF d[p].title = title THEN [title |-> title, base |-> base] ELSE d[p]]
    ELSE Append(d, [title |-> title, base |-> base])

Keys(d) == {d[p].title : p \in 1..Len(d)}

\* a _gen_dict that makes up a Base for a name it does not find
GenDictKeepUnknown(con, base, hasTitle, title) ==
    [items |-> <<[title |-> IF hasTitle THEN title ELSE BaseNamesGet(base),
                  base |-> IF DictGet(con, base)[1] THEN con[base]
                           ELSE Base(FALSE, base)]>>,
     warn |-> {}]

\* _gen_dict(connections, base, title): the items to add (none or one)
\* and whether 'Base %s not found' is logged
GenDict(con, base, hasTitle, title) ==
    IF DictGet(con, base)[1]
    THEN [items |-> <<[title |-> IF hasTitle THEN title ELSE BaseNamesGet(base),
                       base |-> con[base]]>>,
          warn |-> {}]
    ELSE [items |-> <<>>, warn |-> {base}]

\* the loops of lines 169-175 and 178-181, item by item from position p
RECURSIVE ResolveFrom(_, _, _, _)
ResolveFrom(con, sel, p, acc) ==
    IF p > Len(sel.names) THEN acc
    ELSE
        LET s == sel.names[p]
            g == IF sel.kind = "dict"
                 THEN IF sel.values[p].isstr
                      THEN GenDict(con, s, TRUE, sel.values[p].title)
                      ELSE [items |-> <<[title |-> BaseNamesGet(s),
                                         base |-> sel.values[p].base]>>,
                            warn |-> {}]
                 ELSE GenDict(con, s, FALSE, "")
            d == IF Len(g.items) = 0 THEN acc.dict
                 ELSE DictUpdate(acc.dict, g.items[1].title, g.items[1].base)
        IN ResolveFrom(con, sel, p + 1,
                       [dict |-> d, warn |-> acc.warn \cup g.warn])

\* get_dict_of_bases(config, instance, bases): the dict returned and the
\* records logged: <<levelno, levelname, message, argument>>
GetDictOfBases(inst, sel) ==
    LET found == DictGet(connections, inst) IN
    IF ~found[1]
    THEN [dict |-> <<>>, logs |-> {<<ERROR, "ERROR", "No bases in instance", inst>>}]
    ELSE IF sel.kind = "none"
    THEN [dict |-> <<>>,
          logs |-> {<<ERROR, "ERROR", "Bases list of type not supported", "NoneType">>}]
    ELSE LET r == ResolveFrom(found[2], sel, 1, [dict |-> <<>>, warn |-> {}])
         IN [dict |-> r.dict,
             logs |-> {<<WARNING, "WARNING", "Base not found", n>> : n \in r.warn}]

----------------------------------------------------------------------------
(* DataFrames *)

\* pd.DataFrame | None, as one shape of record
DataFrame(columns, rows) == [none |-> FALSE, columns |-> columns, rows |-> rows]
None == [none |-> TRUE, columns |-> <<>>, rows |-> <<>>]

\* the statements: one that returns no rows (INSERT, UPDATE, ...), and two
\* SELECTs, the second with a column that is named like name_title
Statements ==
    { [returns_rows |-> FALSE, keys |-> <<>>],
      [returns_rows |-> TRUE, keys |-> <<"id">>],
      [returns_rows |-> TRUE, keys |-> <<"base", "id">>] }

\* how many rows each database holds for the statement
RowCount(base) ==
    CASE base = "a" -> 2
      [] base = "b" -> 1
      [] base = "c" -> 0
      [] OTHER -> 1

\* a cell of data: the database it was read from, the row and the column
Cell(base, k, key) == <<"data", base, k, key>>
\* a cell holding a title
TitleCell(s) == <<"title", s, 0, "">>

\* result.fetchall() on database base
FetchAll(base, keys) ==
    [k \in 1..RowCount(base) |-> [c \in 1..Len(keys) |-> Cell(base, k, keys[c])]]

\* a sequence with x put in front of what is at 0-based index loc
InsertAt(s, loc, x) ==
    [q \in 1..(Len(s) + 1) |->
        IF q <= loc THEN s[q] ELSE IF q = loc + 1 THEN x ELSE s[q - 1]]

\* len(df)
DfLen(df) == Len(df.rows)

HasColumn(df, column) == \E q \in 1..Len(df.columns) : df.columns[q] = column

\* df.insert(loc, column, [s] * df.shape[0]): the exception raised, or ""
InsertError(df, loc, column) ==
    IF HasColumn(df, column) THEN "ValueError"
    ELSE IF loc > Len(df.columns) THEN "IndexError"
    ELSE ""

\* df.insert(loc, column, [s] * df.shape[0]) when it does not raise
DfInsert(df, loc, column, s) ==
    DataFrame(InsertAt(df.columns, loc, column),
              [k \in 1..Len(df.rows) |-> InsertAt(df.rows[k], loc, TitleCell(s))])

\* df.loc[:, column] = s: an existing column is overwritten where it is,
\* a new one is added after the last
DfLocSet(df, column, s) ==
    IF HasColumn(df, column)
    THEN DataFrame(df.columns,
                   [k \in 1..Len(df.rows) |->
                       [q \in 1..Len(df.columns) |->
                           IF df.columns[q] = column THEN TitleCell(s)
                           ELSE df.rows[k][q]]])
    ELSE DataFrame(Append(df.columns, column),
                   [k \in 1..Len(df.rows) |-> Append(df.rows[k], TitleCell(s))])

RECURSIVE ConcatRows(_)
ConcatRows(frames) ==
    IF Len(frames) = 0 THEN <<>>
    ELSE frames[1].rows \o ConcatRows(Tail(frames))

\* pd.concat(ds, ignore_index=True); every frame of ds comes from the same
\* statement and the same tagging, so all have the columns of the first
Concat(frames) == DataFrame(frames[1].columns, ConcatRows(frames))

\* the default of name_title
name_title == "base"

\* name_position: None, or an int
NoPosition == [given |-> FALSE, at |-> 0]
Position(n) == [given |-> TRUE, at |-> n]

----------------------------------------------------------------------------
(* The state after execute is called, before line 222 *)

\* no engine yet
NoEndpoint == [host |-> "", port |-> [kind |-> "", of |-> ""]]

\* the frame of one _execute / execute_on_base call
NewFrame ==
    [pc |-> "new",          \* where the executor is
     tunnel |-> "none",     \* the SSHTunnelForwarder: none, started, stopped
     starts |-> 0,          \* calls of tunnel.start() that succeeded
     stops |-> 0,           \* calls of tunnel.stop()
     conn |-> "none",       \* the connection: none, open, closed
     commits |-> 0,         \* calls of connection.commit() that succeeded
     endpoint |-> NoEndpoint, \* host and port of the URL of the engine
     data |-> None,         \* the local data
     exc |-> ""]            \* the exception that ended the call

\* the values of insert_name and name_position a caller gives. Only the merge
\* reads them, and it is there that they are drawn; until then the two
\* variables hold the defaults of the signature.
NameArgs ==
    {[insert_name |-> FALSE, name_position |-> NoPosition]}
    \cup {[insert_name |-> TRUE, name_position |-> NoPosition]}
    \cup {[insert_name |-> TRUE, name_position |-> Position(n)] : n \in 0..MaxPos}

Running == [status |-> "running", df |-> None, exc |-> ""]

\* the fragment without a key
NoFragment == [ssh |-> [kind |-> "absent", d |-> <<>>], d |-> <<>>]

\* execute is given Base objects of the registry: no fragment is read
NoDescriptor ==
    /\ dic = NoFragment
    /\ twin = NoFragment
    /\ built = <<>>
    /\ diag = <<>>

\* the locals of execute before line 222
Started ==
    /\ insert_name = FALSE
    /\ name_position = NoPosition
    /\ bases_dict = <<>>
    /\ pc = "start"
    /\ i = 1
    /\ threads = <<>>
    /\ j = 1
    /\ res = <<>>
    /\ w = <<>>
    /\ level = NOTSET
    /\ records = {}
    /\ writes = EmptyBag
    /\ stored = <<>>
    /\ ds = <<>>
    /\ ret = Running

Init ==
    /\ instance \in Instances
    /\ bases \in Selections
    /\ sql \in Statements
    /\ no_threads \in BOOLEAN
    /\ Started
    /\ NoDescriptor

descriptor == <<dic, twin, built, diag>>
inputs == <<instance, bases, sql, no_threads, descriptor>>
name_args == <<insert_name, name_position>>

N == Len(bases_dict)

Finished(f) == f.pc \in {"done", "failed"}

----------------------------------------------------------------------------
(* execute: the calling thread *)

\* lines 222-230: get_dict_of_bases and the empty locals
Resolve ==
    /\ pc = "start"
    /\ LET r == GetDictOfBases(instance, bases)
           lv == LogLevel(debug)
       IN /\ bases_dict' = r.dict
          /\ level' = lv
          /\ records' = {<<l[2], l[3], l[4]>> : l \in {x \in r.logs : x[1] >= Effective(lv)}}
          /\ w' = [p \in 1..Len(r.dict) |-> NewFrame]
    /\ pc' = "loop"
    /\ UNCHANGED <<inputs, name_args, i, threads, j, res, writes, stored, ds, ret>>

\* a scheduler that stops starting threads once an executor has failed
ThreadStartUnlessFailed ==
    /\ pc = "loop"
    /\ i <= N
    /\ ~no_threads
    /\ \A q \in 1..N : w[q].pc /= "failed"
    /\ w' = [w EXCEPT ![i].pc = "begin"]
    /\ threads' = Append(threads, i)
    /\ i' = i + 1
    /\ UNCHANGED <<inputs, name_args, bases_dict, pc, j, res, level, records, writes, stored, ds, ret>>

\* lines 249-264: Thread(target=_execute, ...).start(); threads.append(thread)
ThreadStart ==
    /\ pc = "loop"
    /\ i <= N
    /\ ~no_threads
    /\ w' = [w EXCEPT ![i].pc = "begin"]
    /\ threads' = Append(threads, i)
    /\ i' = i + 1
    /\ UNCHANGED <<inputs, name_args, bases_dict, pc, j, res, level, records, writes, stored, ds, ret>>

\* a sequential loop that goes on to the next target without waiting
CallNoWait ==
    /\ pc = "loop"
    /\ i <= N
    /\ no_threads
    /\ w' = [w EXCEPT ![i].pc = "begin"]
    /\ i' = i + 1
    /\ UNCHANGED <<inputs, name_args, bases_dict, pc, threads, j, res, level, records, writes, stored, ds, ret>>

\* line 268: _execute(...) is called in the calling thread
Call ==
    /\ pc = "loop"
    /\ i <= N
    /\ no_threads
    /\ w' = [w EXCEPT ![i].pc = "begin"]
    /\ pc' = "call"
    /\ UNCHANGED <<inputs, name_args, bases_dict, i, threads, j, res, level, records, writes, stored, ds, ret>>

\* line 268: _execute returned, the loop goes on
CallReturn ==
    /\ pc = "call"
    /\ w[i].pc = "done"
    /\ i' = i + 1
    /\ pc' = "loop"
    /\ UNCHANGED <<inputs, name_args, bases_dict, threads, j, res, w, level, records, writes, stored, ds, ret>>

\* line 268: _execute raised; nothing in execute catches it
CallRaise ==
    /\ pc = "call"
    /\ w[i].pc = "failed"
    /\ pc' = "raised"
    /\ ret' = [status |-> "raised", df |-> None, exc |-> w[i].exc]
    /\ UNCHANGED <<inputs, name_args, bases_dict, i, threads, j, res, w, level, records, writes, stored, ds>>

\* a join that does not wait
JoinReadyNoWait(f) == TRUE

\* a join that waits for the slot of res instead of the end of the thread
JoinReadyStored(f) == f.pc = "done"

\* thread.join() returns when the thread ended, by return or by exception
JoinReady(f) == Finished(f)

\* lines 270-272: thread.join() for the next thread of the list
Join ==
    /\ pc = "loop"
    /\ i > N
    /\ ~no_threads
    /\ j <= Len(threads)
    /\ JoinReady(w[threads[j]])
    /\ j' = j + 1
    /\ UNCHANGED <<inputs, name_args, bases_dict, pc, i, threads, res, w, level, records, writes, stored, ds, ret>>

\* res.pop(s) has removed key s
DictPop(d, s) == [k \in DOMAIN d \ {s} |-> d[k]]

\* res[s] = df
DictSet(d, s, df) == [k \in DOMAIN d \cup {s} |-> IF k = s THEN df ELSE d[k]]

\* lines 278-286: the frame with the title column, or the exception
Tag(df, s, ins, pos) ==
    IF ~ins THEN [exc |-> "", df |-> df]
    ELSE IF pos.given
    THEN IF InsertError(df, pos.at, name_title) /= ""
         THEN [exc |-> InsertError(df, pos.at, name_title), df |-> df]
         ELSE [exc |-> "", df |-> DfInsert(df, pos.at, name_title, s)]
    ELSE [exc |-> "", df |-> DfLocSet(df, name_title, s)]

\* a merge that takes the keys in the order the executors stored them
MergeKeyCompletionOrder(d, p) ==
    IF p <= Len(stored) /\ stored[p] <= Len(d) THEN d[stored[p]].title ELSE d[p].title

\* the key the merge loop takes at position p
MergeKey(d, p) == d[p].title

\* lines 274-287, from position p of bases_dict.keys()
RECURSIVE MergeFrom(_, _, _, _, _, _)
MergeFrom(d, p, r, acc, ins, pos) ==
    IF p > Len(d) THEN [exc |-> "", res |-> r, ds |-> acc]
    ELSE LET s == MergeKey(d, p) IN
         IF s \notin DOMAIN r THEN [exc |-> "KeyError", res |-> r, ds |-> acc]
         ELSE LET df == r[s]
                  r2 == DictPop(r, s)
              IN IF df.none \/ DfLen(df) = 0
                 THEN MergeFrom(d, p + 1, r2, acc, ins, pos)
                 ELSE LET t == Tag(df, s, ins, pos) IN
                      IF t.exc /= "" THEN [exc |-> t.exc, res |-> r2, ds |-> acc]
                      ELSE MergeFrom(d, p + 1, r2, Append(acc, t.df), ins, pos)

\* a merge that returns an empty table when nothing was collected
ResultEmptyFrame(frames) ==
    IF Len(frames) > 0 THEN Concat(frames) ELSE DataFrame(<<>>, <<>>)

\* line 289
Result(frames) == IF Len(frames) > 0 THEN Concat(frames) ELSE None

\* lines 274-289: the merge and the return, in the calling thread, for the
\* insert_name and name_position of the call
Merge ==
    /\ pc = "loop"
    /\ i > N
    /\ no_threads \/ j > Len(threads)
    /\ \E a \in NameArgs :
          LET m == MergeFrom(bases_dict, 1, res, <<>>, a.insert_name, a.name_position)
          IN /\ insert_name' = a.insert_name
             /\ name_position' = a.name_position
             /\ res' = m.res
             /\ ds' = m.ds
             /\ IF m.exc /= ""
                THEN /\ pc' = "raised"
                     /\ ret' = [status |-> "raised", df |-> None, exc |-> m.exc]
                ELSE /\ pc' = "returned"
                     /\ ret' = [status |-> "returned", df |-> Result(m.ds), exc |-> ""]
    /\ UNCHANGED <<inputs, bases_dict, i, threads, j, w, level, records, writes, stored>>

----------------------------------------------------------------------------
(* _execute and execute_on_base: the executor of position p *)

Title(p) == bases_dict[p].title
BaseOf(p) == bases_dict[p].base

Wrote(p, what, key) == writes (+) SetToBag({<<p, what, key>>})

\* lines 69-83: _loglevel, and SSHTunnelForwarder(...).start() if the base has ssh
Begin(p) ==
    /\ w[p].pc = "begin"
    /\ level' = LogLevel(debug)
    /\ writes' = Wrote(p, "logger", "level")
    /\ UNCHANGED stored
    /\ records' = Emit(records, LogLevel(debug), DEBUG, "DEBUG", "Opening connection", Title(p))
    /\ IF BaseOf(p).ssh
       THEN \/ w' = [w EXCEPT ![p].pc = "engine", ![p].tunnel = "started",
                              ![p].starts = @ + 1]
            \/ w' = [w EXCEPT ![p].pc = "failed", ![p].exc = "TunnelError"]
       ELSE w' = [w EXCEPT ![p].pc = "engine"]
    /\ UNCHANGED <<inputs, name_args, bases_dict, pc, i, threads, j, res, ds, ret>>

\* tunnel.local_bind_port: the local port the tunnel to a database listens on
LocalBindPort(base) == [kind |-> "local_bind_port", of |-> base]

\* lines 88-89: host and port of the URL
Endpoint(b, tunnelled) ==
    [host |-> ServerOf(b.base),
     port |-> IF tunnelled THEN LocalBindPort(b.base) ELSE PortOf(b.base)]

\* lines 84-99: create_engine, 'Connected', engine.connect()
Connect(p) ==
    /\ w[p].pc = "engine"
    /\ records' = Emit(records, level, INFO, "INFO", "Connected", Title(p))
    /\ \/ w' = [w EXCEPT ![p].pc = "connected", ![p].conn = "open",
                         ![p].endpoint = Endpoint(BaseOf(p), w[p].tunnel /= "none")]
       \/ w' = [w EXCEPT ![p].pc = "failed", ![p].exc = "ConnectionError",
                         ![p].endpoint = Endpoint(BaseOf(p), w[p].tunnel /= "none")]
    /\ UNCHANGED <<inputs, name_args, bases_dict, pc, i, threads, j, res, level, writes, stored, ds, ret>>

\* an execute without the with block: an exception leaves the connection open
ExecuteLeavesOpen(p) ==
    /\ w[p].pc = "connected"
    /\ \/ /\ w' = [w EXCEPT ![p].pc = "executed",
                            ![p].data = IF sql.returns_rows
                                        THEN DataFrame(sql.keys,
                                                       FetchAll(BaseOf(p).base, sql.keys))
                                        ELSE None]
          /\ records' = IF sql.returns_rows THEN records
                        ELSE Emit(records, level, INFO, "INFO", "Affected rows", Title(p))
       \/ /\ w' = [w EXCEPT ![p].pc = "failed", ![p].exc = "QueryError"]
          /\ UNCHANGED records
    /\ UNCHANGED <<inputs, name_args, bases_dict, pc, i, threads, j, res, level, writes, stored, ds, ret>>

\* lines 102-111: connection.execute(text(sql)) and the fetch; an exception
\* leaves the with block, which closes the connection
Execute(p) ==
    /\ w[p].pc = "connected"
    /\ \/ /\ w' = [w EXCEPT ![p].pc = "executed",
                            ![p].data = IF sql.returns_rows
                                        THEN DataFrame(sql.keys,
                                                       FetchAll(BaseOf(p).base, sql.keys))
                                        ELSE None]
          /\ records' = IF sql.returns_rows THEN records
                        ELSE Emit(records, level, INFO, "INFO", "Affected rows", Title(p))
       \/ /\ w' = [w EXCEPT ![p].pc = "failed", ![p].exc = "QueryError",
                            ![p].conn = "closed"]
          /\ UNCHANGED records
    /\ UNCHANGED <<inputs, name_args, bases_dict, pc, i, threads, j, res, level, writes, stored, ds, ret>>

\* the commit indented under the else of line 110: only without rows
CommitWithoutRowsOnly(p) ==
    /\ w[p].pc = "executed"
    /\ \/ w' = [w EXCEPT ![p].pc = "committed",
                         ![p].commits = IF sql.returns_rows THEN @ ELSE @ + 1]
       \/ /\ ~sql.returns_rows
          /\ w' = [w EXCEPT ![p].pc = "failed", ![p].exc = "CommitError",
                            ![p].conn = "closed"]
    /\ UNCHANGED <<inputs, name_args, bases_dict, pc, i, threads, j, res, level, records, writes, stored, ds, ret>>

\* line 112: connection.commit()
Commit(p) ==
    /\ w[p].pc = "executed"
    /\ \/ w' = [w EXCEPT ![p].pc = "committed", ![p].commits = @ + 1]
       \/ w' = [w EXCEPT ![p].pc = "failed", ![p].exc = "CommitError",
                         ![p].conn = "closed"]
    /\ UNCHANGED <<inputs, name_args, bases_dict, pc, i, threads, j, res, level, records, writes, stored, ds, ret>>

\* a connection opened without the with block: nothing closes it
CloseForgotten(p) ==
    /\ w[p].pc = "committed"
    /\ w' = [w EXCEPT ![p].pc = "closed"]
    /\ UNCHANGED <<inputs, name_args, bases_dict, pc, i, threads, j, res, level, records, writes, stored, ds, ret>>

\* the end of the with block of line 99: the connection is closed
Close(p) ==
    /\ w[p].pc = "committed"
    /\ w' = [w EXCEPT ![p].pc = "closed", ![p].conn = "closed"]
    /\ UNCHANGED <<inputs, name_args, bases_dict, pc, i, threads, j, res, level, records, writes, stored, ds, ret>>

\* executors that keep their tunnel in one shared place: the first one's is stopped
StopFirstTunnel(p) ==
    /\ w[p].pc = "closed"
    /\ records' = Emit(records, level, INFO, "INFO", "Done", Title(p))
    /\ IF w[p].tunnel /= "none"
       THEN w' = [w EXCEPT ![p].pc = "return", ![1].tunnel = "stopped",
                           ![1].stops = @ + 1]
       ELSE w' = [w EXCEPT ![p].pc = "return"]
    /\ UNCHANGED <<inputs, name_args, bases_dict, pc, i, threads, j, res, level, writes, stored, ds, ret>>

\* lines 116-122: 'Done', tunnel.stop() if there is a tunnel, return data
Stop(p) ==
    /\ w[p].pc = "closed"
    /\ records' = Emit(records, level, INFO, "INFO", "Done", Title(p))
    /\ IF w[p].tunnel /= "none"
       THEN w' = [w EXCEPT ![p].pc = "return", ![p].tunnel = "stopped",
                           ![p].stops = @ + 1]
       ELSE w' = [w EXCEPT ![p].pc = "return"]
    /\ UNCHANGED <<inputs, name_args, bases_dict, pc, i, threads, j, res, level, writes, stored, ds, ret>>

\* an executor that stores under the first title
StoreKeyShared(p) == Title(1)

\* the key _execute stores under
StoreKey(p) == Title(p)

\* lines 243-246: res[kwargs['title']] = df
Store(p) ==
    /\ w[p].pc = "return"
    /\ res' = DictSet(res, StoreKey(p), w[p].data)
    /\ writes' = Wrote(p, "res", StoreKey(p))
    /\ stored' = Append(stored, p)
    /\ w' = [w EXCEPT ![p].pc = "done"]
    /\ UNCHANGED <<inputs, name_args, bases_dict, pc, i, threads, j, level, records, ds, ret>>

Next ==
    \/ Resolve
    \/ ThreadStart
    \/ Call
    \/ CallReturn
    \/ CallRaise
    \/ Join
    \/ Merge
    \/ \E p \in 1..N : Begin(p)
    \/ \E p \in 1..N : Connect(p)
    \/ \E p \in 1..N : Execute(p)
    \/ \E p \in 1..N : Commit(p)
    \/ \E p \in 1..N : Close(p)
    \/ \E p \in 1..N : Stop(p)
    \/ \E p \in 1..N : Store(p)

Spec == Init /\ [][Next]_vars

\* the steps of the thread that called execute
MainNext ==
    Resolve \/ ThreadStart \/ Call \/ CallReturn \/ CallRaise \/ Join \/ Merge

\* the calling thread is scheduled whenever it can step; nothing is assumed
\* of the executors, which wait for a tunnel, a server or a statement
FairSpec == Spec /\ WF_vars(MainNext)

----------------------------------------------------------------------------
(* The descriptors: a fragment and its twin are built and shown *)

\* a dict with its password, if it has one, replaced
SetPassword(d, pw) == [k \in DOMAIN d |-> IF k = "password" THEN pw ELSE d[k]]

\* a fragment with its passwords replaced
WithPasswords(fr, pw, sshpw) ==
    [ssh |-> [kind |-> fr.ssh.kind, d |-> SetPassword(fr.ssh.d, sshpw)],
     d |-> SetPassword(fr.d, pw)]

\* the fields of the dataclasses in the order they are declared
SSHFields == <<"host", "port", "login", "key", "password">>
BaseFields == <<"ssh", "engine", "server", "port", "user", "password", "base">>

\* a __repr__ that shows every field, password included
ReprFieldsAll == SSHFields \o BaseFields

\* the fields the generated __repr__ shows: all but those declared with
\* field(repr=False)
ReprFields == SelectSeq(SSHFields \o BaseFields, LAMBDA f : f /= "password")

IsShown(f) == \E k \in 1..Len(ReprFields) : ReprFields[k] = f

\* repr(ssh)
ReprSSH(ssh) ==
    IF ssh.none THEN <<"None">>
    ELSE <<"SSH">> \o
         [k \in 1..Len(SelectSeq(SSHFields, IsShown)) |->
             <<SelectSeq(SSHFields, IsShown)[k], ssh[SelectSeq(SSHFields, IsShown)[k]]>>]

\* repr(base)
ReprBase(b) ==
    <<"Base">> \o
    [k \in 1..Len(SelectSeq(BaseFields, IsShown)) |->
        LET f == SelectSeq(BaseFields, IsShown)[k]
        IN <<f, IF f = "ssh" THEN ReprSSH(b.ssh) ELSE b[f]>>]

\* the records execute_on_base(sql, b, title, debug) emits when nothing
\* fails (lines 71, 96, 111, 116)
ExecutorRecords(b, title) ==
    Emit(Emit(Emit(Emit({}, LogLevel(debug), DEBUG, "DEBUG", "Opening connection", title),
                   LogLevel(debug), INFO, "INFO", "Connected", title),
              LogLevel(debug), INFO, "INFO", "Affected rows", title),
         LogLevel(debug), INFO, "INFO", "Done", title)

\* what is shown of the result of from_dict: the exception, or the reprs
\* and the records of a run
Diagnostic(r) ==
    IF r.err /= NoError
    THEN [err |-> r.err, base |-> <<>>, ssh |-> <<>>, records |-> {}]
    ELSE [err |-> r.err, base |-> ReprBase(r.value), ssh |-> ReprSSH(r.value.ssh),
          records |-> ExecutorRecords(r.value, "A")]

DescriptorInit ==
    /\ instance = "missing"
    /\ bases = NoneSel
    /\ sql \in {st \in Statements : ~st.returns_rows}
    /\ no_threads = TRUE
    /\ Started
    /\ dic \in Fragments
    /\ \E pw, sshpw \in Passwords : twin = WithPasswords(dic, pw, sshpw)
    /\ built = <<>>
    /\ diag = <<>>

\* line 70: Base().from_dict(base), for the fragment and for its twin
FromDict ==
    /\ built = <<>>
    /\ built' = <<BaseFromDict(dic), BaseFromDict(twin)>>
    /\ UNCHANGED <<instance, bases, sql, no_threads, name_args, bases_dict, pc, i,
                   threads, j, res, w, level, records, writes, stored, ds, ret,
                   dic, twin, diag>>

\* the two results are shown
Diagnose ==
    /\ built /= <<>>
    /\ diag = <<>>
    /\ diag' = <<Diagnostic(built[1]), Diagnostic(built[2])>>
    /\ UNCHANGED <<instance, bases, sql, no_threads, name_args, bases_dict, pc, i,
                   threads, j, res, w, level, records, writes, stored, ds, ret,
                   dic, twin, built>>

DescriptorNext == FromDict \/ Diagnose

DescriptorSpec == DescriptorInit /\ [][DescriptorNext]_vars

----------------------------------------------------------------------------
(* Properties *)

Ended == pc \in {"returned", "raised"}

\* execute_on_base of position p has exited, by return or by exception
Exited(p) == w[p].pc \in {"return", "done", "failed"}

\* what the executor of position p returns when nothing fails
ExpectedData(p) ==
    IF sql.returns_rows
    THEN DataFrame(sql.keys, FetchAll(BaseOf(p).base, sql.keys))
    ELSE None

\* the executor of position p can take its next step
CanStep(p) ==
    ENABLED (Begin(p) \/ Connect(p) \/ Execute(p) \/ Commit(p) \/ Close(p)
             \/ Stop(p) \/ Store(p))

\* C1: every tunnel that execute_on_base started has been stopped exactly
\* once when execute_on_base has exited, by return or by exception.
TunnelStoppedOnEveryExit ==
    \A p \in 1..Len(w) : (Exited(p) /\ w[p].starts > 0) => w[p].stops = 1

\* C2: a failure of a target (tunnel, connect or execute phase) never makes
\* the call of execute fail, in either mode.
CallSucceedsDespiteTargetFailures ==
    (\E p \in 1..Len(w) : w[p].pc = "failed") => pc /= "raised"

\* C3: in concurrent mode, once an executor has failed, the scheduler still
\* starts every remaining thread, every other started executor can still take
\* its next step until it has finished, an executor that is done has stored,
\* under its own title, the value it produces when nothing fails, and the call
\* does not end before every executor has finished.
FailureIsolation ==
    ~no_threads =>
        \A q \in 1..Len(w) : w[q].pc = "failed" =>
            /\ (pc = "loop" /\ i <= N) => ENABLED ThreadStart
            /\ \A p \in 1..Len(w) \ {q} :
                  /\ (pc /= "start" /\ i > p) => w[p].pc /= "new"
                  /\ w[p].pc \notin {"new", "done", "failed"} => CanStep(p)
                  /\ (w[p].pc = "done" /\ pc = "loop") =>
                        /\ Title(p) \in DOMAIN res
                        /\ res[Title(p)] = ExpectedData(p)
            /\ Ended => \A p \in 1..Len(w) : Finished(w[p])

\* C3 witness: the first executor failed and the second one, started after
\* it, ran to its end and stored its result.
FailureIsolationWitness ==
    /\ ~no_threads
    /\ N = 2
    /\ w[1].pc = "failed"
    /\ w[2].pc = "done"
    /\ Title(2) \in DOMAIN res

\* C4: in sequential mode every target of bases_dict has been attempted when
\* the call ends, also after the executor of an earlier position failed.
SequentialAttemptsAll ==
    (no_threads /\ Ended) => \A p \in 1..Len(w) : w[p].pc /= "new"

\* C5: in concurrent mode exactly one thread per target is started, the
\* merge has not read res and the call has not ended while a thread is still
\* running, and res never holds more than N entries.
Barrier ==
    ~no_threads =>
        /\ Len(threads) <= N
        /\ \A p \in 1..Len(threads) : threads[p] = p
        /\ (pc = "loop" /\ i > N) => Len(threads) = N
        /\ Ended => /\ Len(threads) = N
                    /\ \A p \in 1..Len(w) : Finished(w[p])
        /\ (\E p \in 1..Len(w) : ~Finished(w[p])) => (ds = <<>> /\ ret = Running)
        /\ Cardinality(DOMAIN res) <= N

\* C5 witness: a concurrent call over two targets has returned.
BarrierWitness ==
    /\ ~no_threads
    /\ N = 2
    /\ pc = "returned"
    /\ \A p \in 1..2 : w[p].pc = "done"

\* the rows the executor of position p produced and stored
Produced(p) ==
    IF w[p].pc = "done" /\ ~w[p].data.none THEN w[p].data.rows ELSE <<>>

\* the number of rows produced by the positions before p
RECURSIVE Offset(_)
Offset(p) == IF p <= 1 THEN 0 ELSE Offset(p - 1) + Len(Produced(p - 1))

IsData(c) == c[1] = "data"

\* a cell that df.loc[:, name_title] = s does not overwrite
Survives(c) == ~(insert_name /\ ~name_position.given /\ c[4] = name_title)

\* C6: when execute has returned a table, its rows are the rows the
\* executors produced, grouped per target in the order of bases_dict, each
\* group in the order its executor produced it, whatever the order in which
\* the executors stored.
MergeOrder ==
    (pc = "returned" /\ ~ret.df.none) =>
        /\ Len(ret.df.rows) = Offset(N + 1)
        /\ \A p \in 1..N : \A k \in 1..Len(Produced(p)) :
              SelectSeq(ret.df.rows[Offset(p) + k], IsData)
                  = SelectSeq(Produced(p)[k], Survives)

\* C6 witness: two concurrent executors both produced rows, the second one
\* stored first, and execute has returned.
MergeOrderWitness ==
    /\ pc = "returned"
    /\ ~no_threads
    /\ stored = <<2, 1>>
    /\ Len(Produced(1)) > 0
    /\ Len(Produced(2)) > 0

\* C7 as claimed: in concurrent mode every store an executor makes to a
\* shared object is a store to res, under its own title, made once.
OnlyResultMapShared ==
    ~no_threads =>
        \A e \in BagToSet(writes) :
            /\ e[2] = "res"
            /\ e[3] = Title(e[1])
            /\ CopiesIn(e, writes) = 1

\* C7 as amended: in concurrent mode an executor stores to two shared
\* objects only: to the module logger, whose level every executor sets to the
\* same value, and to res, where it stores once, under its own title; titles
\* are distinct, so no two executors store under the same key, and until the
\* merge every slot holds what its own executor produced.
DisjointSlotWrites ==
    ~no_threads =>
        /\ \A e \in BagToSet(writes) :
              \/ e[2] = "res" /\ e[3] = Title(e[1]) /\ CopiesIn(e, writes) = 1
              \/ e[2] = "logger" /\ e[3] = "level" /\ level = LogLevel(debug)
        /\ \A p, q \in 1..Len(w) : p /= q => Title(p) /= Title(q)
        /\ pc = "loop" =>
              /\ DOMAIN res = {Title(p) : p \in {q \in 1..Len(w) : w[q].pc = "done"}}
              /\ \A p \in 1..Len(w) : w[p].pc = "done" => res[Title(p)] = w[p].data

\* C7 witness: two concurrent executors have both stored their slots.
DisjointSlotWritesWitness ==
    /\ ~no_threads
    /\ pc = "loop"
    /\ N = 2
    /\ w[1].pc = "done"
    /\ w[2].pc = "done"
    /\ Cardinality(DOMAIN res) = 2

ProvenanceColumn ==
    (pc = "returned" /\ ~ret.df.none) =>
        IF insert_name
        THEN LET q == IF name_position.given THEN name_position.at + 1
                      ELSE Len(ret.df.columns)
             IN /\ ret.df.columns[q] = name_title
                /\ \A p \in 1..N : \A k \in 1..Len(Produced(p)) :
                      ret.df.rows[Offset(p) + k][q] = TitleCell(Title(p))
        ELSE ret.df.columns = sql.keys

----------------------------------------------------------------------------
(* Properties of get_dict_of_bases *)

Registered == instance \in DOMAIN connections

\* item k of the selection carries a Base of its own
IsLiteral(k) == bases.kind = "dict" /\ ~bases.values[k].isstr

\* item k of the selection names a Base: its own, or one of the registry
Present(k) == IsLiteral(k) \/ bases.names[k] \in DOMAIN connections[instance]

PresentItems == {k \in 1..Len(bases.names) : Present(k)}

\* the title item k asks for
TitleOf(k) ==
    IF bases.kind = "dict" /\ bases.values[k].isstr THEN bases.values[k].title
    ELSE BaseNamesGet(bases.names[k])

\* the Base item k names
DescOf(k) ==
    IF IsLiteral(k) THEN bases.values[k].base
    ELSE connections[instance][bases.names[k]]

\* the present items, each name at its first occurrence
FirstByName == {k \in PresentItems : \A k2 \in 1..(k - 1) : bases.names[k2] /= bases.names[k]}

\* the present items, each title at its first occurrence
FirstByTitle == {k \in PresentItems : \A k2 \in PresentItems : k2 < k => TitleOf(k2) /= TitleOf(k)}

\* the last present item that asks for title t
LastWithTitle(t) ==
    CHOOSE k \in PresentItems :
        /\ TitleOf(k) = t
        /\ \A k2 \in PresentItems : TitleOf(k2) = t => k2 <= k

Rank(S, k) == Cardinality({k2 \in S : k2 <= k})

Warned(k) == <<"WARNING", "Base not found", bases.names[k]>> \in records

\* C10 as claimed: a missing instance gives the empty dict; otherwise every
\* requested name that is not registered is omitted with a warning and every
\* requested name that is registered is kept, in request order; no executor
\* exists for an omitted name.
KeptInRequestOrder ==
    pc /= "start" =>
        /\ ~Registered => bases_dict = <<>>
        /\ (Registered /\ bases.kind /= "none") =>
              /\ \A k \in 1..Len(bases.names) : ~Present(k) => Warned(k)
              /\ Len(bases_dict) = Cardinality(FirstByName)
              /\ \A k \in FirstByName :
                    bases_dict[Rank(FirstByName, k)]
                        = [title |-> TitleOf(k), base |-> DescOf(k)]
        /\ Len(w) = Len(bases_dict)

\* C10 as amended: as claimed, except that of several requested registered
\* names that resolve to the same title only the last is kept, at the
\* position of the first.
ResolveOmitsUnknown ==
    pc /= "start" =>
        /\ ~Registered => bases_dict = <<>>
        /\ (Registered /\ bases.kind /= "none") =>
              /\ \A k \in 1..Len(bases.names) : ~Present(k) => Warned(k)
              /\ \A k \in 1..Len(bases.names) : Warned(k) => ~Present(k)
              /\ Len(bases_dict) = Cardinality(FirstByTitle)
              /\ \A k \in FirstByTitle :
                    bases_dict[Rank(FirstByTitle, k)]
                        = [title |-> TitleOf(k), base |-> DescOf(LastWithTitle(TitleOf(k)))]
              /\ (\A k, k2 \in PresentItems :
                      TitleOf(k) = TitleOf(k2) => bases.names[k] = bases.names[k2])
                    => /\ Len(bases_dict) = Cardinality(FirstByName)
                       /\ \A k \in FirstByName :
                             bases_dict[Rank(FirstByName, k)]
                                 = [title |-> TitleOf(k), base |-> DescOf(k)]
        /\ Len(w) = Len(bases_dict)
        /\ \A p \in 1..Len(w) : w[p].pc /= "new" =>
              \E k \in PresentItems : BaseOf(p) = DescOf(k) /\ Title(p) = TitleOf(k)

\* C10 witness: a name that is not registered was asked for together with
\* one that is, the first was omitted with a warning, the second was kept
\* and executed, and execute has returned.
ResolveOmitsUnknownWitness ==
    /\ pc = "returned"
    /\ Registered
    /\ bases.kind \in {"list", "dict"}
    /\ \E k \in 1..Len(bases.names) : ~Present(k) /\ Warned(k)
    /\ \E k \in 1..Len(bases.names) : Present(k) /\ ~IsLiteral(k)
    /\ Len(bases_dict) = 1
    /\ w[1].pc = "done"

----------------------------------------------------------------------------
(* Properties of the executors *)

\* the executor of position p is between its start and its end
Active(p) == w[p].pc \notin {"new", "done", "failed"}

\* C11: in sequential mode no thread is started, an executor begins only
\* after the executors of all earlier positions have returned, at most one
\* executor is running and at most one target has a started tunnel or an
\* open connection.
SequentialOneAtATime ==
    no_threads =>
        /\ threads = <<>>
        /\ \A p \in 1..Len(w) : w[p].pc /= "new" =>
              \A q \in 1..(p - 1) : w[q].pc = "done"
        /\ Cardinality({p \in 1..Len(w) : Active(p)}) <= 1
        /\ Cardinality({p \in 1..Len(w) :
                           w[p].tunnel = "started" \/ w[p].conn = "open"}) <= 1

\* C11 witness: in sequential mode the first executor, which had a tunnel,
\* is done and the second one has its connection open.
SequentialOneAtATimeWitness ==
    /\ no_threads
    /\ N = 2
    /\ w[1].pc = "done"
    /\ w[1].tunnel = "stopped"
    /\ w[2].conn = "open"

\* C12: a connection is open only between engine.connect() and the end of
\* the with block: when execute_on_base has exited, by return or by an
\* exception of execute or commit, its connection is not open.
ConnectionClosedOnExit ==
    \A p \in 1..Len(w) :
        /\ Exited(p) => w[p].conn /= "open"
        /\ w[p].conn = "open" => w[p].pc \in {"connected", "executed", "committed"}
        /\ w[p].exc \in {"QueryError", "CommitError"} => w[p].conn = "closed"
        /\ w[p].pc \in {"closed", "return", "done"} => w[p].conn = "closed"

\* C12 witness: one executor failed in execute, another in commit, and both
\* connections are closed.
ConnectionClosedOnExitWitness ==
    /\ N = 2
    /\ w[1].exc = "QueryError"
    /\ w[2].exc = "CommitError"
    /\ w[1].conn = "closed"
    /\ w[2].conn = "closed"

\* the tunnel and the connection of a frame
Resources(f) == <<f.tunnel, f.starts, f.stops, f.conn>>

\* execute_on_base of position p is past lines 74-83
PastTunnel(p) ==
    \/ w[p].pc \in {"engine", "connected", "executed", "committed", "closed",
                    "return", "done"}
    \/ w[p].pc = "failed" /\ w[p].exc /= "TunnelError"

\* one tunnel per target with ssh, none per target without
OneTunnelEach ==
    \A p \in 1..Len(w) :
        /\ w[p].starts <= 1
        /\ w[p].stops <= w[p].starts
        /\ w[p].tunnel = "none" <=> w[p].starts = 0
        /\ ~BaseOf(p).ssh => w[p].starts = 0
        /\ (BaseOf(p).ssh /\ PastTunnel(p)) => w[p].starts = 1

\* a step that changes the tunnel or the connection of a frame is a step of
\* the executor of that frame, and changes no other frame
OwnStep ==
    Len(w') = Len(w) =>
        \A p \in 1..Len(w) :
            Resources(w'[p]) /= Resources(w[p]) =>
                /\ w'[p].pc /= w[p].pc
                /\ \A q \in 1..Len(w) \ {p} : w'[q] = w[q]

\* C13: each target with ssh gets exactly one tunnel per attempt, a target
\* without ssh gets none, and the tunnel and the connection of an executor
\* are started, used and stopped by steps of that executor only.
TunnelPerTarget == []OneTunnelEach /\ [][OwnStep]_vars

\* C13 witness: two concurrent executors each have their own started tunnel
\* and open connection.
TunnelPerTargetWitness ==
    /\ ~no_threads
    /\ N = 2
    /\ \A p \in 1..2 : w[p].tunnel = "started" /\ w[p].starts = 1 /\ w[p].conn = "open"

\* the statement of position p was executed and its commit returned
PastCommit(p) == w[p].pc \in {"committed", "closed", "return", "done"}

\* what line 102-111 leave in data
Materialized(p) ==
    IF sql.returns_rows
    THEN DataFrame(sql.keys, FetchAll(BaseOf(p).base, sql.keys))
    ELSE None

\* C15 as stated: a commit is issued exactly when the statement returns no
\* rows, a statement that returns rows is never committed, and nothing is
\* committed after a failed execution.
CommitOnlyWithoutRows ==
    \A p \in 1..Len(w) :
        /\ sql.returns_rows => w[p].commits = 0
        /\ (~sql.returns_rows /\ PastCommit(p)) => w[p].commits = 1
        /\ w[p].exc = "QueryError" => w[p].commits = 0

\* C15: a commit is issued after every statement that executed, whether it
\* returns rows or not (the rows are materialized first); nothing is
\* committed when the execution, or anything before it, failed.
CommitAfterEveryExecution ==
    \A p \in 1..Len(w) :
        /\ w[p].commits = (IF PastCommit(p) THEN 1 ELSE 0)
        /\ w[p].pc = "failed" => w[p].commits = 0
        /\ PastCommit(p) => w[p].data = Materialized(p)
        /\ w[p].exc \in {"TunnelError", "ConnectionError", "QueryError"} =>
               w[p].data = None

\* C15 witness: a statement that returns rows was committed after its rows
\* were materialized.
CommitAfterEveryExecutionWitness ==
    /\ sql.returns_rows
    /\ \E p \in 1..Len(w) :
          w[p].commits = 1 /\ w[p].data = Materialized(p) /\ ~w[p].data.none

\* position p has written its slot of res
HasStored(st, p) == \E k \in 1..Len(st) : st[k] = p

\* what the state of a frame says about the order of what happened
OrderInv ==
    \A p \in 1..Len(w) :
        /\ (BaseOf(p).ssh /\ w[p].conn /= "none") => w[p].starts = 1
        /\ w[p].commits > 0 => w[p].pc \notin {"new", "begin", "engine", "connected"}
        /\ w[p].tunnel = "stopped" => w[p].conn = "closed"
        /\ (BaseOf(p).ssh /\ HasStored(stored, p)) => w[p].tunnel = "stopped"

\* what a step needs to have happened before
OrderStep ==
    Len(w') = Len(w) =>
        \A p \in 1..Len(w) :
            /\ (w[p].conn = "none" /\ w'[p].conn = "open" /\ BaseOf(p).ssh) =>
                  w[p].tunnel = "started"
            /\ w'[p].commits > w[p].commits =>
                  w[p].pc = "executed" /\ w[p].conn = "open"
            /\ w'[p].stops > w[p].stops =>
                  w[p].conn = "closed" /\ w[p].commits = 1
            /\ (HasStored(stored', p) /\ ~HasStored(stored, p)) =>
                  /\ w[p].conn = "closed"
                  /\ BaseOf(p).ssh => w[p].tunnel = "stopped"

\* C18: in an attempt on a target with ssh, the tunnel is started before the
\* connection is opened, the statement is executed before the commit, the
\* connection is closed before the tunnel is stopped, and the tunnel is
\* stopped before the slot of res is written; a tunnel is never stopped
\* while its connection is open.
ResourceOrder == []OrderInv /\ [][OrderStep]_vars

\* C18 witness: an attempt on a target with ssh went through all of it and
\* wrote its slot.
ResourceOrderWitness ==
    \E p \in 1..Len(w) :
        /\ BaseOf(p).ssh
        /\ w[p].pc = "done"
        /\ HasStored(stored, p)
        /\ w[p].starts = 1 /\ w[p].commits = 1 /\ w[p].stops = 1
        /\ w[p].conn = "closed" /\ w[p].tunnel = "stopped"

\* the positions execute has launched an executor for
Attempted == {p \in 1..Len(w) : w[p].pc /= "new"}

\* the titles the present items of the selection ask for
PresentTitles == {TitleOf(k) : k \in PresentItems}

\* C19: the titles of bases_dict are unique; of several present names with
\* the same title the Base of the last is kept, at the position of the
\* first; and when execute ends, one executor has been launched for each
\* title, so that their number is the number of distinct titles.
OneAttemptPerAlias ==
    pc /= "start" =>
        /\ \A p, q \in 1..Len(bases_dict) :
              bases_dict[p].title = bases_dict[q].title => p = q
        /\ (Registered /\ bases.kind /= "none") =>
              /\ Len(bases_dict) = Cardinality(PresentTitles)
              /\ \A k \in FirstByTitle :
                    /\ bases_dict[Rank(FirstByTitle, k)].title = TitleOf(k)
                    /\ bases_dict[Rank(FirstByTitle, k)].base
                           = DescOf(LastWithTitle(TitleOf(k)))
        /\ Len(w) = Cardinality(Keys(bases_dict))
        /\ Ended => Cardinality(Attempted) = Cardinality(Keys(bases_dict))

\* the executor of position p was launched and has not ended
ActiveAt(p) == p <= Len(w) /\ Active(p)

\* every executor that is launched ends, by return or by exception: it is
\* not running for ever
ExecutorsFinish == \A p \in 1..MaxSel : []<>~ActiveAt(p)

\* C20: if every executor that is launched ends, execute ends, with or
\* without threads; and execute never ends while an executor it launched
\* has not ended, so an executor that never ends keeps execute from ending.
Termination ==
    /\ ExecutorsFinish => <>Ended
    /\ [](Ended => \A p \in 1..Len(w) : ~Active(p))

\* C20 witness: execute with threads has ended after both of its executors
\* ended, one by exception and one by return.
TerminationWitness ==
    /\ ~no_threads
    /\ Ended
    /\ N = 2
    /\ j = 3
    /\ w[1].pc = "done"
    /\ w[2].pc = "failed"

\* the local end of the tunnel to a database: the forwarder listens on the
\* machine that runs execute
TunnelEndpoint(base) == [host |-> "127.0.0.1", port |-> LocalBindPort(base)]

\* C14: the engine of a target without ssh is given the target's own server
\* and port; the engine of a target with ssh is given the local port of the
\* tunnel, and so connects to the local end of the tunnel and not to the
\* target's own server.
EndpointResolution ==
    \A p \in 1..Len(w) :
        w[p].endpoint /= NoEndpoint =>
            IF BaseOf(p).ssh
            THEN /\ w[p].endpoint.port = LocalBindPort(BaseOf(p).base)
                 /\ w[p].endpoint = TunnelEndpoint(BaseOf(p).base)
            ELSE w[p].endpoint = [host |-> ServerOf(BaseOf(p).base),
                                  port |-> PortOf(BaseOf(p).base)]

----------------------------------------------------------------------------
(* Properties of the descriptors *)

\* the fragment has the keys from_dict reads without a default
HasRequired(fr) ==
    /\ FirstMissing(fr.d) = ""
    /\ fr.ssh.kind = "dict" => {"host", "login"} \subseteq DOMAIN fr.ssh.d

\* a key of a section is absent and the field has the value, or it is given
\* and the field has what is given
DefaultOrGiven(d, section, k, value, default) ==
    IF k \in DOMAIN d THEN value = Given(section, k) ELSE value = default

\* C17 as stated: when only the database port, the driver, the ssh login or
\* the ssh port are absent, construction succeeds and the field has its
\* default: 3306, 'mysql+pymysql', 'root', 22.
AbsentOptionalSucceeds ==
    built /= <<>> =>
        ((FirstMissing(dic.d) = "" /\ (dic.ssh.kind = "dict" => "host" \in DOMAIN dic.ssh.d))
            => /\ built[1].err = NoError
               /\ "port" \notin DOMAIN dic.d => built[1].value.port = DefaultPort
               /\ "engine" \notin DOMAIN dic.d => built[1].value.engine = "mysql+pymysql"
               /\ (dic.ssh.kind = "dict" /\ "login" \notin DOMAIN dic.ssh.d)
                     => built[1].value.ssh.login = "root"
               /\ (dic.ssh.kind = "dict" /\ "port" \notin DOMAIN dic.ssh.d)
                     => built[1].value.ssh.port = DefaultSSHPort)

\* C17: construction succeeds exactly when the fragment has server, user,
\* password and base, and host and login in its ssh section if it has one;
\* otherwise it fails with KeyError for a key that is missing. When it
\* succeeds, an absent database port, driver, ssh section, ssh port, key or
\* ssh password has its default (3306, 'mysql+pymysql', None, 22, None,
\* None) and every key given has the value given.
FromDictDefaults ==
    built /= <<>> =>
        /\ built[1].err = NoError <=> HasRequired(dic)
        /\ built[1].err /= NoError =>
              /\ built[1].err.exc = "KeyError"
              /\ \/ built[1].err.key \in {"server", "user", "password", "base"} \ DOMAIN dic.d
                 \/ /\ dic.ssh.kind = "dict"
                    /\ built[1].err.key \in {"host", "login"} \ DOMAIN dic.ssh.d
        /\ built[1].err = NoError =>
              /\ DefaultOrGiven(dic.d, "db", "port", built[1].value.port, DefaultPort)
              /\ DefaultOrGiven(dic.d, "db", "engine", built[1].value.engine, "mysql+pymysql")
              /\ \A k \in {"server", "user", "base"} : built[1].value[k] = Given("db", k)
              /\ built[1].value.password = dic.d["password"]
              /\ dic.ssh.kind /= "dict" => built[1].value.ssh = NoSSH
              /\ dic.ssh.kind = "dict" =>
                    /\ ~built[1].value.ssh.none
                    /\ DefaultOrGiven(dic.ssh.d, "ssh", "port",
                                      built[1].value.ssh.port, DefaultSSHPort)
                    /\ DefaultOrGiven(dic.ssh.d, "ssh", "key",
                                      built[1].value.ssh.key, NoneValue)
                    /\ IF "password" \in DOMAIN dic.ssh.d
                       THEN built[1].value.ssh.password = dic.ssh.d["password"]
                       ELSE built[1].value.ssh.password = NoneValue
                    /\ \A k \in {"host", "login"} :
                          built[1].value.ssh[k] = Given("ssh", k)

\* C17 witness: a fragment with nothing but the required keys was built with
\* the defaults.
FromDictDefaultsWitness ==
    /\ built /= <<>>
    /\ DOMAIN dic.d = {"server", "user", "password", "base"}
    /\ dic.ssh.kind = "dict"
    /\ DOMAIN dic.ssh.d = {"host", "login"}
    /\ built[1].err = NoError
    /\ built[1].value.port = DefaultPort
    /\ built[1].value.engine = "mysql+pymysql"
    /\ built[1].value.ssh.port = DefaultSSHPort

\* C16: a fragment and its twin, which differ in nothing but their
\* passwords, are shown alike: the same exception of from_dict, or the same
\* repr of the Base and of its SSH and the same log records of
\* execute_on_base.
PasswordNotDisclosed == diag /= <<>> => diag[1] = diag[2]

\* C16 witness: two descriptors with a tunnel that differ in both passwords
\* have been built and shown.
PasswordNotDisclosedWitness ==
    /\ diag /= <<>>
    /\ built[1].err = NoError
    /\ ~built[1].value.ssh.none
    /\ built[1].value.password /= built[2].value.password
    /\ built[1].value.ssh.password \in Passwords
    /\ built[2].value.ssh.password \in Passwords \ {built[1].value.ssh.password}
    /\ Len(diag[1].base) > 1
    /\ Len(diag[1].ssh) > 1
    /\ diag[1].records /= {}

====
